---- MODULE Spec2Model ----
(***************************************************************************)
(* A model of jira.py: the module-level configuration resolution           *)
(* (statuses and projects read from a file or from an environment          *)
(* variable), the startup validation, the command-line dispatch and the    *)
(* sequential status queries with their report.                            *)
(*                                                                         *)
(* Representation.  A Python str is a sequence of tokens; the text the     *)
(* program parses (file contents, environment values, --status) is spelled *)
(* one character per token, fixed literals of the program are one token.   *)
(* An optional value (os.getenv, a file that may not exist, None) is a     *)
(* sequence of length 0 (absent) or 1 (present).  A dict is the sequence   *)
(* of its <<key, value>> pairs in insertion order.                         *)
(***************************************************************************)
EXTENDS Integers, Sequences, FiniteSets, TLC

VARIABLES
    HOME,               \* os.environ.get("HOME")
    JIRA_API_USER,      \* environment variable JIRA_API_USER
    JIRA_API_KEY_ENV,   \* environment variable JIRA_API_KEY
    statusesFile,       \* content of ./.statuses, absent when no such file
    projectsFile,       \* content of ./.projects, absent when no such file
    JIRA_STATUSES,      \* environment variable JIRA_STATUSES
    JIRA_PROJECTS,      \* environment variable JIRA_PROJECTS
    argv,               \* sys.argv[1:] as argparse sees it
    JIRA_USER,          \* module global
    JIRA_API_KEY,       \* module global
    STATUSES,           \* module global, a dict
    PROJECTS,           \* module global, a list
    consulted,          \* names of the environment variables the resolvers read
    pc,                 \* position of the process
    idx,                \* main: number of loop iterations done in the current loop
    stdout,             \* lines printed so far
    gets,               \* HTTP GET requests issued so far
    responses,          \* the response each GET was answered with
    exitCode,           \* process exit code, -1 while running
    exception           \* the uncaught exception that ended the process, if any

inputs == <<HOME, JIRA_API_USER, JIRA_API_KEY_ENV, statusesFile, projectsFile,
            JIRA_STATUSES, JIRA_PROJECTS, argv>>
globals == <<JIRA_USER, JIRA_API_KEY, STATUSES, PROJECTS>>
vars == <<HOME, JIRA_API_USER, JIRA_API_KEY_ENV, statusesFile, projectsFile,
          JIRA_STATUSES, JIRA_PROJECTS, argv, JIRA_USER, JIRA_API_KEY, STATUSES,
          PROJECTS, consulted, pc, idx, stdout, gets, responses, exitCode,
          exception>>

----------------------------------------------------------------------------
(* Optional values and Python truthiness *)

None == <<>>
Some(v) == <<v>>
IsNone(o) == Len(o) = 0
Val(o) == o[1]

\* bool(x) of an optional str: None and '' are falsy
Truthy(o) == ~IsNone(o) /\ Len(Val(o)) > 0

\* a or b, for an optional str a
Or(a, b) == IF Truthy(a) THEN a ELSE b

----------------------------------------------------------------------------
(* str methods *)

HasSep(s, sep) == \E i \in 1..Len(s) : s[i] = sep

FirstSep(s, sep) == CHOOSE i \in 1..Len(s) :
                        /\ s[i] = sep
                        /\ \A j \in 1..(i - 1) : s[j] # sep

\* s.split(sep)
RECURSIVE Split(_, _)
Split(s, sep) ==
    IF ~HasSep(s, sep)
    THEN <<s>>
    ELSE LET i == FirstSep(s, sep)
         IN  <<SubSeq(s, 1, i - 1)>> \o Split(SubSeq(s, i + 1, Len(s)), sep)

\* sep.join(parts)
RECURSIVE Join(_, _)
Join(parts, sep) ==
    IF parts = <<>> THEN <<>>
    ELSE IF Len(parts) = 1 THEN parts[1]
    ELSE parts[1] \o <<sep>> \o Join(Tail(parts), sep)

LowerChar(c) ==
    CASE c = "A" -> "a"
      [] c = "B" -> "b"
      [] c = "L" -> "l"
      [] OTHER   -> c

\* s.lower()
Lower(s) == [i \in 1..Len(s) |-> LowerChar(s[i])]

----------------------------------------------------------------------------
(* dict *)

HasKey(d, k) == \E i \in 1..Len(d) : d[i][1] = k

\* d[k], for a key of d
Lookup(d, k) == d[CHOOSE i \in 1..Len(d) : d[i][1] = k][2]

\* d[k] = v
DictPut(d, k, v) ==
    IF HasKey(d, k)
    THEN [i \in 1..Len(d) |-> IF d[i][1] = k THEN <<k, v>> ELSE d[i]]
    ELSE Append(d, <<k, v>>)

\* d.values()
Values(d) == [i \in 1..Len(d) |-> d[i][2]]

Keys(d) == {d[i][1] : i \in 1..Len(d)}

----------------------------------------------------------------------------
(* Program constants *)

DEFAULT_USER == <<"pavel.saman@inveo.cz">>
BASE_API_URL == <<"https://inveocz.atlassian.net/rest/api/3/">>
BROWSE_BASE_URL == <<"https://inveocz.atlassian.net/browse/">>
\* HTTPBasicAuth defines neither __bool__ nor __len__: the object is truthy
AUTH == [user |-> JIRA_USER, key |-> JIRA_API_KEY]
AUTH_truthy == TRUE
HEADERS == << <<"Accept", "application/json">> >>
STATUSES_FILE_NAME == "./.statuses"
PROJECTS_FILE_NAME == "./.projects"
STATUSES_ENV_NAME == "JIRA_STATUSES"
PROJECTS_ENV_NAME == "JIRA_PROJECTS"
HTTP_OK == 200
USAGE == <<"usage: jira.py [-h] [-s [STATUS]] [--statushelp] [--priorityhelp]">>

\* A Python object with its type: PRIORITY has int keys and str values
PyInt(n) == [type |-> "int", v |-> n]
PyStr(s) == [type |-> "str", v |-> s]
PRIORITY == << <<PyInt(1), PyStr(<<"Highest">>)>>, <<PyInt(2), PyStr(<<"High">>)>>,
               <<PyInt(3), PyStr(<<"Medium">>)>>, <<PyInt(4), PyStr(<<"Low">>)>>,
               <<PyInt(5), PyStr(<<"Lowest">>)>> >>

----------------------------------------------------------------------------
(* The environment the resolvers read *)

FileOf(file_name) ==
    IF file_name = STATUSES_FILE_NAME THEN statusesFile ELSE projectsFile

Getenv(env_var_name) ==
    IF env_var_name = STATUSES_ENV_NAME THEN JIRA_STATUSES ELSE JIRA_PROJECTS

\* A call either returns val or raises exc
Return(v) == [exc |-> "None", val |-> v]
Raise(e) == [exc |-> e, val |-> <<>>]
Raised(r) == r.exc # "None"

\* lines 38 and 63: the lines kept from a file
Surviving(lines) == SelectSeq(lines, LAMBDA l : Len(l) > 0 /\ l[1] # "#")

\* the loop with an entry that does not split in two passed over
RECURSIVE SkipMalformed(_, _)
SkipMalformed(entries, dict) ==
    IF entries = <<>> THEN Return(dict)
    ELSE LET parts == Split(Head(entries), ":")
         IN  IF Len(parts) # 2
             THEN SkipMalformed(Tail(entries), dict)
             ELSE SkipMalformed(Tail(entries), DictPut(dict, parts[1], parts[2]))

\* lines 40-42 and 51-53: key, value = status.split(':') ; dict[key] = value,
\* over all entries
RECURSIVE status_loop(_, _)
status_loop(entries, dict) ==
    IF entries = <<>> THEN Return(dict)
    ELSE LET parts == Split(Head(entries), ":")
         IN  IF Len(parts) # 2
             THEN Raise("ValueError")
             ELSE status_loop(Tail(entries), DictPut(dict, parts[1], parts[2]))

\* './.statuses'.replace('~', HOME): a TypeError when HOME is None, the name
\* itself otherwise (it holds no '~').  With no such file the function
\* returns its local variable before assigning it.
read_statuses_from_file(orig_file_name) ==
    IF IsNone(HOME) THEN Raise("TypeError")
    ELSE IF IsNone(FileOf(orig_file_name)) THEN Raise("UnboundLocalError")
    ELSE status_loop(Surviving(Split(Val(FileOf(orig_file_name)), "\n")), <<>>)

read_statuses_from_env(env_var_name) ==
    IF ~Truthy(Getenv(env_var_name)) THEN Return(<<>>)
    ELSE status_loop(Split(Val(Getenv(env_var_name)), ","), <<>>)

read_projects_from_file(orig_file_name) ==
    IF IsNone(HOME) THEN Raise("TypeError")
    ELSE IF IsNone(FileOf(orig_file_name)) THEN Raise("UnboundLocalError")
    ELSE Return(Surviving(Split(Val(FileOf(orig_file_name)), "\n")))

read_projects_from_env(env_var_name) ==
    IF ~Truthy(Getenv(env_var_name)) THEN Return(<<>>)
    ELSE Return(Split(Val(Getenv(env_var_name)), ","))

\* the chain with the environment variable tried before the file
EnvFirst(inline, from_file, from_env) ==
    IF Len(inline) > 0 THEN [exc |-> "None", val |-> inline, env |-> FALSE]
    ELSE IF Raised(from_env) THEN [exc |-> from_env.exc, val |-> <<>>, env |-> TRUE]
    ELSE IF Len(from_env.val) > 0 THEN [exc |-> "None", val |-> from_env.val, env |-> TRUE]
    ELSE [exc |-> from_file.exc, val |-> from_file.val, env |-> TRUE]

\* lines 164 and 165: inline or from_file() or from_env(), as [exc, val, env]
\* where env tells whether from_env was called
first_non_empty(inline, from_file, from_env) ==
    IF Len(inline) > 0 THEN [exc |-> "None", val |-> inline, env |-> FALSE]
    ELSE IF Raised(from_file) THEN [exc |-> from_file.exc, val |-> <<>>, env |-> FALSE]
    ELSE IF Len(from_file.val) > 0 THEN [exc |-> "None", val |-> from_file.val, env |-> FALSE]
    ELSE [exc |-> from_env.exc, val |-> from_env.val, env |-> TRUE]

\* line 166
Quoted(projects) == [i \in 1..Len(projects) |-> <<"\"">> \o projects[i] \o <<"\"">>]

----------------------------------------------------------------------------
(* Module load, lines 152-166 *)

\* an uncaught exception: the traceback names the line, the exit code is 1
NoException == [type |-> "None", line |-> 0]

Crash(e, line) ==
    /\ pc' = "done"
    /\ exception' = [type |-> e, line |-> line]
    /\ exitCode' = 1

\* line 164
ResolveStatuses ==
    /\ pc = "statuses"
    /\ LET r == first_non_empty(<<>>,
                                read_statuses_from_file(STATUSES_FILE_NAME),
                                read_statuses_from_env(STATUSES_ENV_NAME))
       IN  /\ consulted' = IF r.env THEN consulted \cup {STATUSES_ENV_NAME}
                           ELSE consulted
           /\ IF Raised(r)
              THEN Crash(r.exc, 164) /\ UNCHANGED STATUSES
              ELSE /\ STATUSES' = r.val
                   /\ pc' = "projects"
                   /\ UNCHANGED <<exception, exitCode>>
    /\ UNCHANGED <<inputs, JIRA_USER, JIRA_API_KEY, PROJECTS, idx, stdout, gets,
                   responses>>

\* lines 165-166
ResolveProjects ==
    /\ pc = "projects"
    /\ LET r == first_non_empty(<<>>,
                                read_projects_from_file(PROJECTS_FILE_NAME),
                                read_projects_from_env(PROJECTS_ENV_NAME))
       IN  /\ consulted' = IF r.env THEN consulted \cup {PROJECTS_ENV_NAME}
                           ELSE consulted
           /\ IF Raised(r)
              THEN Crash(r.exc, 165) /\ UNCHANGED PROJECTS
              ELSE /\ PROJECTS' = Quoted(r.val)
                   /\ pc' = "requirements"
                   /\ UNCHANGED <<exception, exitCode>>
    /\ UNCHANGED <<inputs, JIRA_USER, JIRA_API_KEY, STATUSES, idx, stdout, gets,
                   responses>>

----------------------------------------------------------------------------
(* requirements(), lines 75-99, called at line 180 *)

requirements_checks ==
    << <<~Truthy(JIRA_API_KEY), <<"NO JIRA API KEY present, can't proceed.">> >>,
       <<~Truthy(JIRA_USER), <<"NO JIRA USER present, can't proceed.">> >>,
       <<Len(BASE_API_URL) = 0, <<"NO BASE API URL present, can't proceed.">> >>,
       <<~AUTH_truthy, <<"No auth, can't proceed.">> >>,
       <<Len(HEADERS) = 0, <<"No headers specified, can't proceed.">> >>,
       <<Len(BROWSE_BASE_URL) = 0, <<"No BROWSE BASE URL specified, can't proceed.">> >>,
       <<Len(STATUSES) = 0, <<"No STATUSES, can't proceed.">> >>,
       <<Len(PROJECTS) = 0, <<"No PROJECTS, can't proceed.">> >> >>

Failing(checks) == {i \in 1..Len(checks) : checks[i][1]}

FirstFailing(checks) == CHOOSE i \in Failing(checks) : \A j \in Failing(checks) : i <= j

\* the messages printed without the exit(1) that follows them
RequirementsWithoutExit ==
    /\ pc = "requirements"
    /\ stdout' = stdout \o [i \in 1..Cardinality(Failing(requirements_checks)) |->
                               requirements_checks[FirstFailing(requirements_checks)][2]]
    /\ pc' = "argv"
    /\ UNCHANGED <<inputs, globals, consulted, idx, gets, responses, exception, exitCode>>

Requirements ==
    /\ pc = "requirements"
    /\ IF Failing(requirements_checks) # {}
       THEN /\ stdout' = Append(stdout,
                                requirements_checks[FirstFailing(requirements_checks)][2])
            /\ exitCode' = 1
            /\ pc' = "done"
       ELSE /\ pc' = "argv"
            /\ UNCHANGED <<stdout, exitCode>>
    /\ UNCHANGED <<inputs, globals, consulted, idx, gets, responses, exception>>

----------------------------------------------------------------------------
(* Command line, lines 183-197 *)

\* parser.parse_args(): the flags are store_true, --status takes an optional
\* value with const 'all' and default None, a repeated option keeps the last
RECURSIVE parse_status(_, _)
parse_status(args, status) ==
    IF args = <<>> THEN status
    ELSE IF Head(args).opt = "status"
         THEN parse_status(Tail(args),
                           IF IsNone(Head(args).value) THEN Some(<<"a", "l", "l">>)
                           ELSE Head(args).value)
         ELSE parse_status(Tail(args), status)

parse_args(args) ==
    [statushelp   |-> \E i \in 1..Len(args) : args[i].opt = "statushelp",
     priorityhelp |-> \E i \in 1..Len(args) : args[i].opt = "priorityhelp",
     status       |-> parse_status(args, None)]

\* lines 192-194
NoArguments ==
    /\ pc = "argv"
    /\ Len(argv) = 0
    /\ stdout' = Append(stdout, USAGE)
    /\ exitCode' = 0
    /\ pc' = "done"
    /\ UNCHANGED <<inputs, globals, consulted, idx, gets, responses, exception>>

----------------------------------------------------------------------------
(* get_test_tickets and issues_pretty_print, lines 102-120 *)

jql(env) ==
    <<"project in (">> \o Join(PROJECTS, ",") \o <<") AND status in (\"">> \o env
        \o <<"\")">>

request(env) ==
    [method  |-> "GET",
     url     |-> BASE_API_URL \o <<"search">>,
     headers |-> HEADERS,
     params  |-> jql(env),
     auth    |-> AUTH]

\* what the server may answer
Issue(key, priority, summary) ==
    [key |-> key, fields |-> [priority |-> [id |-> priority], summary |-> summary]]

Payloads ==
    { [total |-> 0, issues |-> <<>>],
      [total |-> 2, issues |-> <<Issue(<<"A-1">>, <<"2">>, <<"x">>)>>] }

Responses ==
    {[status_code |-> HTTP_OK, json |-> p] : p \in Payloads}
        \cup {[status_code |-> c, json |-> [total |-> 0, issues |-> <<>>]] : c \in {404, 500}}

\* the value get_test_tickets returns for a response
get_test_tickets_result(response) ==
    IF response.status_code = HTTP_OK THEN Some(response.json) ELSE None

issue_line(j) ==
    j.key \o <<" : ">> \o BROWSE_BASE_URL \o j.key \o <<" : ">>
        \o j.fields.priority.id \o <<" : ">> \o j.fields.summary

\* the report with a failure printed as a count of zero
PrintFailureAsZero(result_json) ==
    IF IsNone(result_json)
    THEN << <<"Number of issues: ", "0">> >>
    ELSE << <<"Number of issues: ", ToString(Val(result_json).total)>> >>
             \o [i \in 1..Len(Val(result_json).issues) |->
                    issue_line(Val(result_json).issues[i])]

\* the lines issues_pretty_print prints
issues_pretty_print(result_json) ==
    IF IsNone(result_json)
    THEN << <<"! Number of issues: 0">> >>
    ELSE << <<"Number of issues: ", ToString(Val(result_json).total)>> >>
             \o [i \in 1..Len(Val(result_json).issues) |->
                    issue_line(Val(result_json).issues[i])]

\* print('{0}:'.format(v)) ; issues_pretty_print(get_test_tickets(v))
Query(v, response) ==
    /\ gets' = Append(gets, request(v))
    /\ responses' = Append(responses, response)
    /\ stdout' = stdout \o << v \o <<":">> >>
                        \o issues_pretty_print(get_test_tickets_result(response))

----------------------------------------------------------------------------
(* main(args), lines 122-148, and exit(0) at line 202 *)

args == parse_args(argv)

\* a + b of two Python objects
CanAdd(a, b) == a.type = "str" /\ b.type = "str"

\* lines 124-127, then line 202
StatusHelp ==
    /\ pc = "argv"
    /\ Len(argv) > 0
    /\ args.statushelp
    /\ stdout' = stdout \o [i \in 1..Len(STATUSES) |->
                               STATUSES[i][1] \o <<":">> \o STATUSES[i][2]]
    /\ exitCode' = 0
    /\ pc' = "done"
    /\ UNCHANGED <<inputs, globals, consulted, idx, gets, responses, exception>>

\* lines 130-133, then line 202: k + ':' + v raises at the first entry whose
\* key is not a str
PriorityHelp ==
    /\ pc = "argv"
    /\ Len(argv) > 0
    /\ ~args.statushelp
    /\ args.priorityhelp
    /\ LET bad == {i \in 1..Len(PRIORITY) : ~CanAdd(PRIORITY[i][1], PyStr(<<":">>))}
           n == IF bad = {} THEN Len(PRIORITY)
                ELSE (CHOOSE i \in bad : \A j \in bad : i <= j) - 1
       IN  /\ stdout' = stdout \o [i \in 1..n |->
                                      PRIORITY[i][1].v \o <<":">> \o PRIORITY[i][2].v]
           /\ IF bad = {}
              THEN exitCode' = 0 /\ pc' = "done" /\ UNCHANGED exception
              ELSE Crash("TypeError", 132)
    /\ UNCHANGED <<inputs, globals, consulted, idx, gets, responses>>

\* lines 135-137: the projects line, then the choice of the first loop
MainStart ==
    /\ pc = "argv"
    /\ Len(argv) > 0
    /\ ~args.statushelp
    /\ ~args.priorityhelp
    /\ stdout' = stdout \o <<Join(PROJECTS, ","), <<>> >>
    /\ IF IsNone(args.status)
       THEN Crash("AttributeError", 137)
       ELSE /\ pc' = IF Lower(Val(args.status)) = <<"a", "l", "l">> /\ Len(STATUSES) > 0
                     THEN "all" ELSE "tokens"
            /\ UNCHANGED <<exception, exitCode>>
    /\ idx' = 0
    /\ UNCHANGED <<inputs, globals, consulted, gets, responses>>

\* lines 138-140: one iteration of the loop over STATUSES.values()
QueryAll ==
    /\ pc = "all"
    /\ idx < Len(STATUSES)
    /\ \E response \in Responses : Query(Values(STATUSES)[idx + 1], response)
    /\ IF idx + 1 = Len(STATUSES)
       THEN pc' = "tokens" /\ idx' = 0
       ELSE pc' = "all" /\ idx' = idx + 1
    /\ UNCHANGED <<inputs, globals, consulted, exitCode, exception>>

\* line 143
main_envs == Split(Val(args.status), ",")

\* the loop left at the first token that is no key
StopAtUnknown ==
    /\ pc = "tokens"
    /\ idx < Len(main_envs)
    /\ LET e_lower == Lower(main_envs[idx + 1])
       IN  IF HasKey(STATUSES, e_lower)
           THEN /\ \E response \in Responses : Query(Lookup(STATUSES, e_lower), response)
                /\ IF idx + 1 = Len(main_envs)
                   THEN pc' = "done" /\ exitCode' = 0 /\ idx' = idx + 1
                   ELSE UNCHANGED <<pc, exitCode>> /\ idx' = idx + 1
           ELSE /\ pc' = "done" /\ exitCode' = 0 /\ idx' = idx + 1
                /\ UNCHANGED <<stdout, gets, responses>>
    /\ UNCHANGED <<inputs, globals, consulted, exception>>

\* lines 144-148: one iteration of the loop over envs; after the last one main
\* returns and line 202 exits
QueryToken ==
    /\ pc = "tokens"
    /\ idx < Len(main_envs)
    /\ LET e_lower == Lower(main_envs[idx + 1])
       IN  IF HasKey(STATUSES, e_lower)
           THEN \E response \in Responses : Query(Lookup(STATUSES, e_lower), response)
           ELSE UNCHANGED <<stdout, gets, responses>>
    /\ idx' = idx + 1
    /\ IF idx + 1 = Len(main_envs)
       THEN pc' = "done" /\ exitCode' = 0
       ELSE UNCHANGED <<pc, exitCode>>
    /\ UNCHANGED <<inputs, globals, consulted, exception>>

----------------------------------------------------------------------------
(* The environments the program is started in *)

MaxFileLines == 2
MaxEnvElems == 2
MaxTokens == 2

SeqsUpTo(S, n) == UNION {[1..k -> S] : k \in 0..n}

StatusLines ==
    { <<>>, <<"#", "c">>, <<"a", ":", "X">>, <<"B", ":", "Y">>, <<"a", ":", "Z">>,
      <<"a", "b">>, <<"a", ":", "b", ":", "c">> }

StatusElems ==
    { <<"a", ":", "X">>, <<"B", ":", "Y">>, <<"a", "b">>, <<"a", ":", "b", ":", "c">> }

ProjectLines == { <<>>, <<"#", "c">>, <<"P", "1">>, <<"P", "2">> }

ProjectElems == { <<"P", "1">>, <<"P", "2">> }

Tokens == { <<"a">>, <<"A">>, <<"b">>, <<"a", "l", "l">>, <<"z", "z">> }

\* a file of the given lines, an environment variable of the given elements
FileOfLines(lines) == Some(Join(lines, "\n"))
EnvOfElems(elems) == Some(Join(elems, ","))

Flag(name) == [opt |-> name, value |-> None]
StatusOpt(value) == [opt |-> "status", value |-> value]

HomeDir == Some(<<"/home/u">>)

\* module globals before line 164 has run
Started ==
    /\ JIRA_USER = Or(JIRA_API_USER, Some(DEFAULT_USER))
    /\ JIRA_API_KEY = Or(JIRA_API_KEY_ENV, None)
    /\ STATUSES = <<>>
    /\ PROJECTS = <<>>
    /\ consulted = {}
    /\ pc = "statuses"
    /\ idx = 0
    /\ stdout = <<>>
    /\ gets = <<>>
    /\ responses = <<>>
    /\ exitCode = -1
    /\ exception = NoException

\* every statuses file and JIRA_STATUSES value within the bounds
InitStatuses ==
    /\ HOME = HomeDir
    /\ JIRA_API_USER = None
    /\ JIRA_API_KEY_ENV = Some(<<"k">>)
    /\ statusesFile \in {None} \cup {FileOfLines(l) : l \in SeqsUpTo(StatusLines, MaxFileLines)}
    /\ JIRA_STATUSES \in {None} \cup {EnvOfElems(e) : e \in SeqsUpTo(StatusElems, MaxEnvElems)}
    /\ projectsFile = FileOfLines(<< <<"P", "1">> >>)
    /\ JIRA_PROJECTS = None
    /\ argv \in {<<>>, <<StatusOpt(Some(<<"a">>))>>}

\* every projects file and JIRA_PROJECTS value within the bounds
InitProjects ==
    /\ HOME = HomeDir
    /\ JIRA_API_USER = None
    /\ JIRA_API_KEY_ENV = Some(<<"k">>)
    /\ statusesFile = FileOfLines(<< <<"a", ":", "X">> >>)
    /\ JIRA_STATUSES = None
    /\ projectsFile \in {None} \cup {FileOfLines(l) : l \in SeqsUpTo(ProjectLines, MaxFileLines)}
    /\ JIRA_PROJECTS \in {None} \cup {EnvOfElems(e) : e \in SeqsUpTo(ProjectElems, MaxEnvElems)}
    /\ argv \in {<<>>, <<StatusOpt(Some(<<"a">>))>>}

ArgvSet ==
    { <<>>, <<Flag("statushelp")>>, <<Flag("priorityhelp")>>,
      <<Flag("priorityhelp"), Flag("statushelp")>>, <<StatusOpt(None)>>,
      <<StatusOpt(Some(<<"b">>)), Flag("priorityhelp")>>,
      <<StatusOpt(Some(<<"A", "L", "L">>))>> }
        \cup {<<StatusOpt(EnvOfElems(t))>> : t \in SeqsUpTo(Tokens, MaxTokens)}

\* a few statuses sources: <<file, variable>>
StatusSources ==
    { <<FileOfLines(<< <<"a", ":", "X">>, <<"B", ":", "Y">> >>), None>>,
      <<FileOfLines(<< <<"a", "l", "l", ":", "Z">>, <<"a", ":", "X">> >>), None>>,
      <<FileOfLines(<< <<"#", "c">> >>), EnvOfElems(<< <<"a", ":", "X">> >>)>>,
      <<FileOfLines(<< <<"#", "c">> >>), None>> }

\* every credential and command line within the bounds, over a few configurations
InitRun ==
    /\ HOME \in {None, HomeDir}
    /\ JIRA_API_USER \in {None, Some(<<"u">>)}
    /\ JIRA_API_KEY_ENV \in {None, Some(<<>>), Some(<<"k">>)}
    /\ \E source \in StatusSources : statusesFile = source[1] /\ JIRA_STATUSES = source[2]
    /\ projectsFile \in {FileOfLines(<< <<"P", "1">>, <<"P", "2">> >>), FileOfLines(<<>>)}
    /\ JIRA_PROJECTS = None
    /\ argv \in ArgvSet

Init == (InitStatuses \/ InitProjects \/ InitRun) /\ Started

Next ==
    \/ ResolveStatuses
    \/ ResolveProjects
    \/ Requirements
    \/ NoArguments
    \/ StatusHelp
    \/ PriorityHelp
    \/ MainStart
    \/ QueryAll
    \/ QueryToken

Spec == Init /\ [][Next]_vars

----------------------------------------------------------------------------
(* Vocabulary of the properties *)

Colons(e) == Cardinality({i \in 1..Len(e) : e[i] = ":"})
Malformed(e) == Colons(e) # 1
KeyOf(e) == SubSeq(e, 1, FirstSep(e, ":") - 1)
ValueOf(e) == SubSeq(e, FirstSep(e, ":") + 1, Len(e))

\* the lines of a file that are neither empty nor comments; none without a file
Kept(file) ==
    IF IsNone(file) THEN <<>>
    ELSE SelectSeq(Split(Val(file), "\n"), LAMBDA l : l # <<>> /\ Head(l) # "#")

\* the comma-separated elements of an environment variable; none when it is
\* unset or empty
Elems(env) == IF IsNone(env) \/ Val(env) = <<>> THEN <<>> ELSE Split(Val(env), ",")

\* d holds exactly the entries, a later entry of a key replacing an earlier one
HoldsExactly(d, entries) ==
    /\ Keys(d) = {KeyOf(entries[i]) : i \in 1..Len(entries)}
    /\ \A i \in 1..Len(entries) :
          (\A j \in (i + 1)..Len(entries) : KeyOf(entries[j]) # KeyOf(entries[i]))
              => Lookup(d, KeyOf(entries[i])) = ValueOf(entries[i])
    /\ \A i, j \in 1..Len(d) : d[i][1] = d[j][1] => i = j

\* line 164 has run and returned; lines 164-166 have run and returned
StatusesResolved == pc # "statuses" /\ exception.line # 164
Loaded == pc \notin {"statuses", "projects"} /\ exception.line \notin {164, 165}

QueryMode == Len(argv) > 0 /\ ~args.statushelp /\ ~args.priorityhelp
AllMode == QueryMode /\ Lower(Val(args.status)) = <<"a", "l", "l">>

\* the jql parameter of every GET issued so far, in order
Asked == [i \in 1..Len(gets) |-> gets[i].params]

----------------------------------------------------------------------------
(* Configuration resolution *)

\* C1 (as claimed): once line 164 has run with HOME set and no ./.statuses
\* file, JIRA_STATUSES has been read and no exception has ended the process
\* in the resolution, so that startup validation is reached; the same for
\* ./.projects and JIRA_PROJECTS at line 165.
C1_AbsentFileFallsBackToEnv ==
    /\ (~IsNone(HOME) /\ IsNone(statusesFile) /\ pc # "statuses")
          => /\ STATUSES_ENV_NAME \in consulted
             /\ exception.type # "UnboundLocalError"
             /\ (\A i \in 1..Len(Elems(JIRA_STATUSES)) : ~Malformed(Elems(JIRA_STATUSES)[i]))
                   => /\ StatusesResolved
                      /\ HoldsExactly(STATUSES, Elems(JIRA_STATUSES))
    /\ (~IsNone(HOME) /\ IsNone(projectsFile) /\ pc \notin {"statuses", "projects"}
            /\ exception.line # 164)
          => /\ PROJECTS_ENV_NAME \in consulted
             /\ Loaded

\* C2: when the file keeps at least one line, the environment variable is
\* never read and the resolved StatusMap holds exactly the file's entries
\* (the ProjectList is exactly the kept lines, quoted); the environment
\* variable is read only when the file exists and keeps no line.
C2_FileWinsOverEnv ==
    /\ Kept(statusesFile) # <<>> => STATUSES_ENV_NAME \notin consulted
    /\ (Kept(statusesFile) # <<>> /\ StatusesResolved)
          => HoldsExactly(STATUSES, Kept(statusesFile))
    /\ STATUSES_ENV_NAME \in consulted
          => ~IsNone(statusesFile) /\ Kept(statusesFile) = <<>>
    /\ (STATUSES_ENV_NAME \in consulted /\ StatusesResolved)
          => HoldsExactly(STATUSES, Elems(JIRA_STATUSES))
    /\ Kept(projectsFile) # <<>> => PROJECTS_ENV_NAME \notin consulted
    /\ (Kept(projectsFile) # <<>> /\ Loaded)
          => PROJECTS = [i \in 1..Len(Kept(projectsFile)) |->
                            <<"\"">> \o Kept(projectsFile)[i] \o <<"\"">>]
    /\ PROJECTS_ENV_NAME \in consulted
          => ~IsNone(projectsFile) /\ Kept(projectsFile) = <<>>
    /\ (PROJECTS_ENV_NAME \in consulted /\ Loaded)
          => PROJECTS = [i \in 1..Len(Elems(JIRA_PROJECTS)) |->
                            <<"\"">> \o Elems(JIRA_PROJECTS)[i] \o <<"\"">>]

\* C2 witness: a file with entries and a set JIRA_STATUSES of other entries,
\* resolved to the file's entries without reading the variable.
C2_Witness ==
    /\ pc = "projects"
    /\ Kept(statusesFile) = << <<"B", ":", "Y">> >>
    /\ JIRA_STATUSES = Some(<<"a", ":", "X">>)
    /\ STATUSES = << << <<"B">>, <<"Y">> >> >>
    /\ consulted = {}

\* the entries of the statuses source that line 164 parses: the kept lines of
\* the file (not even opened, or not there, they are none), then the elements
\* of JIRA_STATUSES when it is read
FileEntries == IF IsNone(HOME) THEN <<>> ELSE Kept(statusesFile)
EnvEntries == IF STATUSES_ENV_NAME \in consulted THEN Elems(JIRA_STATUSES) ELSE <<>>
SomeMalformed(entries) == \E i \in 1..Len(entries) : Malformed(entries[i])

\* C10: a malformed entry in the source being read ends line 164 with a
\* ValueError: no StatusMap, no fallback from the file to the variable, no
\* GET; and a source of well-formed entries only is stored entry by entry.
C10_MalformedEntryFails ==
    pc # "statuses" =>
        /\ SomeMalformed(FileEntries)
              => /\ pc = "done"
                 /\ exception = [type |-> "ValueError", line |-> 164]
                 /\ exitCode = 1
                 /\ STATUSES = <<>>
                 /\ consulted = {}
                 /\ gets = <<>>
        /\ SomeMalformed(EnvEntries)
              => /\ pc = "done"
                 /\ exception = [type |-> "ValueError", line |-> 164]
                 /\ exitCode = 1
                 /\ STATUSES = <<>>
                 /\ gets = <<>>
        /\ (~IsNone(HOME) /\ ~IsNone(statusesFile)
                /\ ~SomeMalformed(FileEntries) /\ ~SomeMalformed(EnvEntries))
              => /\ StatusesResolved
                 /\ HoldsExactly(STATUSES, IF FileEntries # <<>> THEN FileEntries
                                           ELSE EnvEntries)

\* C10 witness: a file whose first entry is well formed and whose second is
\* not, with JIRA_STATUSES set, ended by the ValueError.
C10_Witness ==
    /\ pc = "done"
    /\ Kept(statusesFile) = << <<"a", ":", "X">>, <<"a", ":", "b", ":", "c">> >>
    /\ JIRA_STATUSES = Some(<<"B", ":", "Y">>)
    /\ exception.type = "ValueError"
    /\ STATUSES = <<>>

\* C10 witness for the variable: an existing file that keeps nothing and a
\* JIRA_STATUSES with an element without a colon.
C10_WitnessEnv ==
    /\ pc = "done"
    /\ ~IsNone(statusesFile) /\ Kept(statusesFile) = <<>>
    /\ Elems(JIRA_STATUSES) = << <<"a", ":", "X">>, <<"a", "b">> >>
    /\ exception.type = "ValueError"

----------------------------------------------------------------------------
(* Startup validation and the command line *)

KeyMessage == <<"NO JIRA API KEY present, can't proceed.">>
StatusesMessage == <<"No STATUSES, can't proceed.">>
ProjectsMessage == <<"No PROJECTS, can't proceed.">>

\* C3 (as claimed): a run without arguments whose configuration resolved
\* ends with the usage text alone, exit code 0 and no GET, whatever the API
\* key, the StatusMap and the ProjectList are.
C3_NoArgumentsPrintsUsage ==
    (pc = "done" /\ Loaded /\ Len(argv) = 0)
        => /\ stdout = <<USAGE>>
           /\ exitCode = 0
           /\ gets = <<>>

\* C4 (as claimed): a query invocation with JIRA_API_USER, JIRA_API_KEY, the
\* StatusMap or the ProjectList empty or absent ends with exit code 1, one
\* message and no GET.
C4_AnyMissingItemStops ==
    (pc = "done" /\ Loaded /\ QueryMode
        /\ (~Truthy(JIRA_API_USER) \/ ~Truthy(JIRA_API_KEY_ENV)
               \/ STATUSES = <<>> \/ PROJECTS = <<>>))
        => /\ exitCode = 1
           /\ gets = <<>>
           /\ Len(stdout) = 1

\* C4 (amended): the user is never empty, an unset or empty JIRA_API_USER
\* being replaced by the built-in default.  Once the configuration is
\* resolved, an empty or absent API key, an empty StatusMap or an empty
\* ProjectList makes every invocation end in validation: only the message
\* of the first of them, in the order key, statuses, projects, is printed,
\* the exit code is 1, and no GET is issued; nothing is queried before
\* validation has passed.  A run whose resolution raised never reaches
\* validation: it ends with exit code 1 and no GET too, by the uncaught
\* exception and without a message.
C4_ValidationFailsFast ==
    /\ Truthy(JIRA_USER)
    /\ (~Truthy(JIRA_API_USER) => JIRA_USER = Some(DEFAULT_USER))
    /\ pc \in {"statuses", "projects", "requirements"} => gets = <<>> /\ stdout = <<>>
    /\ pc \in {"argv", "all", "tokens"}
          => Truthy(JIRA_API_KEY_ENV) /\ STATUSES # <<>> /\ PROJECTS # <<>>
    /\ (pc = "done" /\ ~Loaded)
          => /\ exitCode = 1
             /\ exception.type \in {"TypeError", "UnboundLocalError", "ValueError"}
             /\ gets = <<>>
             /\ stdout = <<>>
    /\ (pc = "done" /\ Loaded
            /\ (~Truthy(JIRA_API_KEY_ENV) \/ STATUSES = <<>> \/ PROJECTS = <<>>))
          => /\ exitCode = 1
             /\ exception = NoException
             /\ gets = <<>>
             /\ stdout = << IF ~Truthy(JIRA_API_KEY_ENV) THEN KeyMessage
                            ELSE IF STATUSES = <<>> THEN StatusesMessage
                            ELSE ProjectsMessage >>

\* C4 witness: a query invocation with the key present and a StatusMap
\* resolved to nothing, stopped with the statuses message.
C4_Witness ==
    /\ pc = "done"
    /\ QueryMode
    /\ Truthy(JIRA_API_KEY_ENV)
    /\ Loaded
    /\ STATUSES = <<>>
    /\ PROJECTS # <<>>
    /\ stdout = <<StatusesMessage>>
    /\ exitCode = 1

\* C9 (as claimed): --priorityhelp with a valid configuration prints the five
\* id:value lines, issues no GET and exits with code 0.
C9_PriorityHelpPrintsFive ==
    (pc = "done" /\ Loaded /\ Truthy(JIRA_API_KEY) /\ STATUSES # <<>> /\ PROJECTS # <<>>
        /\ argv = <<Flag("priorityhelp")>>)
        => /\ stdout = << <<"1", ":", "Highest">>, <<"2", ":", "High">>,
                          <<"3", ":", "Medium">>, <<"4", ":", "Low">>,
                          <<"5", ":", "Lowest">> >>
           /\ gets = <<>>
           /\ exitCode = 0

----------------------------------------------------------------------------
(* Queries *)

\* the run has gone through main's loops to exit(0)
Queried == pc = "done" /\ QueryMode /\ exitCode = 0

Failed(response) == response.status_code # HTTP_OK

\* the GETs main's loops ask for, whatever the answers: every value when
\* --status is all, then the value of every token whose lower-cased form is
\* a key
RECURSIVE Matched(_)
Matched(tokens) ==
    IF tokens = <<>> THEN <<>>
    ELSE IF Lower(Head(tokens)) \in Keys(STATUSES)
         THEN <<Lookup(STATUSES, Lower(Head(tokens)))>> \o Matched(Tail(tokens))
         ELSE Matched(Tail(tokens))

TokensOf(status) == Split(status, ",")

\* the statement of a GET for a status value
Clause(v) ==
    <<"project in (">> \o Join(PROJECTS, ",") \o <<") AND status in (\"">> \o v \o <<"\")">>

\* C5: every GET is answered once and asked once: a step that issues a GET
\* answered with another code than 200 prints the status header and exactly
\* "! Number of issues: 0", and leaves the process running or exited with
\* code 0; the number of GETs of a completed run does not depend on the
\* answers, and the run exits with code 0.
C5_FailedQueryStep ==
    [][ (Len(responses') = Len(responses) + 1 /\ Failed(responses'[Len(responses')]))
          => /\ Len(gets') = Len(gets) + 1
             /\ \E v \in {STATUSES[i][2] : i \in 1..Len(STATUSES)} :
                   /\ gets'[Len(gets')].params = Clause(v)
                   /\ stdout' = stdout \o << v \o <<":">>, <<"! Number of issues: 0">> >>
             /\ exception' = NoException
             /\ (pc' = "done" => exitCode' = 0)
             /\ (pc' # "done" => pc' \in {"all", "tokens"})
      ]_vars

C5_FailedQueryHandled ==
    /\ [](Len(gets) = Len(responses))
    /\ [](Queried =>
            Len(gets) = (IF AllMode THEN Len(STATUSES) ELSE 0)
                            + Len(Matched(TokensOf(Val(args.status)))))
    /\ []((pc = "done" /\ Len(gets) > 0) => exitCode = 0 /\ exception = NoException)
    /\ C5_FailedQueryStep

\* C5 witness: a completed run whose first GET failed and which went on to a
\* second GET.
C5_Witness ==
    /\ Queried
    /\ Len(responses) = 2
    /\ responses[1].status_code = 404
    /\ stdout[4] = <<"! Number of issues: 0">>

\* C6 (as claimed): with --status all the GETs of a completed run are one per
\* StatusMap value, in the StatusMap's order, and no other.
C6_AllQueriesEachValueOnce ==
    (Queried /\ AllMode) => Asked = [i \in 1..Len(STATUSES) |-> Clause(STATUSES[i][2])]

\* C7 (as claimed): a token that equals a stored key when letter case is
\* ignored has that key's value queried.
C7_LookupIgnoresCase ==
    Queried =>
        \A t \in {TokensOf(Val(args.status))[i] : i \in 1..Len(TokensOf(Val(args.status)))} :
            \A k \in Keys(STATUSES) :
                Lower(t) = Lower(k) => \E i \in 1..Len(Asked) : Asked[i] = Clause(Lookup(STATUSES, k))

\* the report of the answers i..n, each under the header of the value asked
RECURSIVE Reports(_, _)
Reports(values, answers) ==
    IF values = <<>> THEN <<>>
    ELSE << Head(values) \o <<":">> >>
            \o (IF Failed(Head(answers))
                THEN << <<"! Number of issues: 0">> >>
                ELSE << <<"Number of issues: ", ToString(Head(answers).json.total)>> >>
                       \o [i \in 1..Len(Head(answers).json.issues) |->
                             LET j == Head(answers).json.issues[i]
                             IN  j.key \o <<" : ">> \o BROWSE_BASE_URL \o j.key \o <<" : ">>
                                   \o j.fields.priority.id \o <<" : ">> \o j.fields.summary])
            \o Reports(Tail(values), Tail(answers))

\* C8: with a --status list other than all, after any number of tokens the
\* GETs issued are those of the matching tokens read so far, left to right,
\* each followed by its report; the other tokens add no GET and no output,
\* raise nothing, and the run ends with exit code 0 after the last token.
C8_TokensLeftToRight ==
    (QueryMode /\ ~AllMode /\ (pc = "tokens" \/ Queried))
        => LET tokens == TokensOf(Val(args.status))
               done == SubSeq(tokens, 1, idx)
           IN  /\ Asked = [i \in 1..Len(Matched(done)) |-> Clause(Matched(done)[i])]
               /\ Len(responses) = Len(Matched(done))
               /\ stdout = <<Join(PROJECTS, ","), <<>> >> \o Reports(Matched(done), responses)
               /\ exception = NoException
               /\ (pc = "tokens" <=> idx < Len(tokens))
               /\ (pc = "done" => exitCode = 0)

\* C8 witness: an unknown token followed by a known one, the run completed
\* with the one GET of the known token.
C8_Witness ==
    /\ Queried
    /\ TokensOf(Val(args.status)) = << <<"z", "z">>, <<"A">> >>
    /\ STATUSES = << << <<"a">>, <<"X">> >>, << <<"B">>, <<"Y">> >> >>
    /\ Asked = <<Clause(<<"X">>)>>
    /\ Len(stdout) = 5

====
